---------------------------- MODULE Spec2Model ----------------------------
(***************************************************************************)
(* Model of the writing-mode comparison core of scripture-srs              *)
(* (src/app.jsx): graphemesWithRanges, normalizeForCompare, lcsMatchMask   *)
(* and diffCharsLCS.                                                       *)
(*                                                                         *)
(* A raw string is a sequence of UTF-16 code units.  A code unit is        *)
(* written as a one-character string for ASCII and as "U+XXXX" otherwise.  *)
(* Raw offsets are the 0-based offsets of the JavaScript source; Slice     *)
(* translates them to the 1-based positions of TLA+ sequences.             *)
(***************************************************************************)
EXTENDS Integers, Sequences, FiniteSets, TLC

(***************************************************************************)
(* The writing card: the typed value, the card's text, the comparison      *)
(* options of the settings, whether the platform offers Intl.Segmenter,    *)
(* and the feedback of the last submit.  calls is the history of the calls *)
(* of diffCharsLCS, each with its arguments, its locals and its result.    *)
(***************************************************************************)
VARIABLES value, cardText, writingOpts, hasSegmenter, feedback, calls

(***************************************************************************)
(* The app around the card: the cards, settings.mode, the session queue of *)
(* card ids, the review history, the session's counters, whether the card  *)
(* in writing mode has been submitted, and the clock that now() reads.     *)
(* graded keeps, for each history entry, the label of the button pressed.  *)
(***************************************************************************)
VARIABLES cards, mode, sessionQueue, history, completed, daily, sessionStart,
          writingSubmitted, clock, graded

writingVars == << value, cardText, writingOpts, hasSegmenter, feedback, calls >>
appVars == << cards, mode, sessionQueue, history, completed, daily, sessionStart,
              writingSubmitted, clock, graded >>
vars == << writingVars, appVars >>

(***************************************************************************)
(* Code units                                                              *)
(***************************************************************************)
ZWSP == "U+200B"
ZWNJ == "U+200C"
ZWJ == "U+200D"
BOM == "U+FEFF"
NBSP == "U+00A0"
TAB == "U+0009"
LF == "U+000A"
RSQUO == "U+2019"
LDQUO == "U+201C"
EMDASH == "U+2014"
ELLIPSIS == "U+2026"
COMBACUTE == "U+0301"
EACUTE == "U+00E9"
EACUTEUP == "U+00C9"
\* U+20000, a caseless letter outside the BMP, is the pair HISURR LOSURR
HISURR == "U+D840"
LOSURR == "U+DC00"

UpperSeq == << "A","B","C","D","E","F","G","H","I","J","K","L","M",
               "N","O","P","Q","R","S","T","U","V","W","X","Y","Z", EACUTEUP >>
LowerSeq == << "a","b","c","d","e","f","g","h","i","j","k","l","m",
               "n","o","p","q","r","s","t","u","v","w","x","y","z", EACUTE >>

\* JavaScript null (startIdx, the raw indices of head, tail and middle)
Null == -1

\* s.slice(a, b) for 0 <= a; an end past the string stands for the end of the string
Slice(s, a, b) == SubSeq(s, a + 1, IF b > Len(s) THEN Len(s) ELSE b)

Max(a, b) == IF a >= b THEN a ELSE b

RECURSIVE MapChars(_, _)
\* s.replace(/[class]/g, f): every code unit c of s replaced by the sequence f(c)
MapChars(f(_), s) == IF s = << >> THEN << >> ELSE f(Head(s)) \o MapChars(f, Tail(s))

\* Body applied to the value of e. The bound variable holds the value itself, so
\* the body may use it any number of times while e is computed once.
Bind(e, Body(_)) == CHOOSE r \in { Body(v) : v \in {e} } : TRUE

RECURSIVE Iterate(_, _, _, _)
\* a loop: Body(st, i) applied for i = lo, lo+1, ..., hi in this order, from state st.
\* The range is split in halves so that the evaluation depth stays logarithmic.
Iterate(Body(_, _), st, lo, hi) ==
  IF lo > hi THEN st
  ELSE IF lo = hi THEN Body(st, lo)
  ELSE LET mid == (lo + hi) \div 2
           Rest(left) == Iterate(Body, left, mid + 1, hi)
       IN  Bind(Iterate(Body, st, lo, mid), Rest)

(***************************************************************************)
(* graphemesWithRanges                                                     *)
(***************************************************************************)
\* Grapheme_Cluster_Break = Control, CR or LF (lone surrogates included)
IsControlUnit(c) == c \in {ZWSP, BOM, TAB, LF}
\* Grapheme_Cluster_Break = Extend or ZWJ
IsExtendUnit(c) == c \in {ZWNJ, ZWJ, COMBACUTE}

\* CodePointLen that takes every high surrogate for the first half of a pair
CodePointLen_AnyHighSurrogate(str, i) ==
  IF str[i + 1] = HISURR THEN 2 ELSE 1

\* length in code units of the code point that starts at offset i:
\* cp > 0xFFFF ? 2 : 1, codePointAt pairing a high with a following low surrogate
CodePointLen(str, i) ==
  IF str[i + 1] = HISURR /\ i + 1 < Len(str) /\ str[i + 2] = LOSURR THEN 2 ELSE 1

RECURSIVE ExtendLen(_, _)
\* number of Extend/ZWJ code units from offset i on (rule GB9)
ExtendLen(str, i) ==
  IF i < Len(str) /\ IsExtendUnit(str[i + 1]) THEN 1 + ExtendLen(str, i + 1) ELSE 0

\* length of the grapheme cluster Intl.Segmenter reports at offset i
SegmentLen(str, i) ==
  LET n == CodePointLen(str, i) IN
  IF n = 1 /\ (IsControlUnit(str[i + 1]) \/ str[i + 1] \in {HISURR, LOSURR})
  THEN 1
  ELSE n + ExtendLen(str, i + n)

\* one turn of the loop over the string: a unit is pushed while i < str.length
GraphemeStep(str, st, hasSeg) ==
  IF st.i < Len(str)
  THEN LET len == IF hasSeg THEN SegmentLen(str, st.i) ELSE CodePointLen(str, st.i)
       IN  [i |-> st.i + len,
            out |-> Append(st.out, [start |-> st.i, end |-> st.i + len,
                                    str |-> Slice(str, st.i, st.i + len)])]
  ELSE st

\* graphemesWithRanges that has the segmenter for the first call of a session only
graphemesWithRanges_SegmenterOnce(str, hasSeg) ==
  LET Body(st, k) == GraphemeStep(str, st, hasSeg /\ calls = << >>)
  IN  Iterate(Body, [i |-> 0, out |-> << >>], 1, Len(str)).out

\* hasSeg: whether the platform offers Intl.Segmenter
graphemesWithRanges(str, hasSeg) ==
  LET Body(st, k) == GraphemeStep(str, st, hasSeg)
  IN  Iterate(Body, [i |-> 0, out |-> << >>], 1, Len(str)).out

(***************************************************************************)
(* helpers of normalizeForCompare                                          *)
(***************************************************************************)
\* /\s/ restricted to the code units of the model
WS_RE == {" ", TAB, LF, NBSP, BOM}
\* /[\p{P}\p{S}]/u restricted to the code units of the model
PUNCT_RE == {".", ",", ";", ":", "!", "?", "'", "\"", "-", "(", ")",
             RSQUO, LDQUO, EMDASH, ELLIPSIS}
ZW_RE == {ZWSP, ZWNJ, ZWJ, BOM}

isWhitespaceCluster(s) == (\E k \in 1..Len(s) : s[k] \in WS_RE) \/ s = << NBSP >>
isPunctCluster(s) == \E k \in 1..Len(s) : s[k] \in PUNCT_RE

QuoteHyphenOf(c) ==
  CASE c = RSQUO -> << "'" >>
    [] c = LDQUO -> << "\"" >>
    [] c = EMDASH -> << "-" >>
    [] c = ELLIPSIS -> << ".", ".", "." >>
    [] OTHER -> << c >>
mapQuotesHyphens(s) == MapChars(QuoteHyphenOf, s)

\* raw.replace(ZW_RE, "").replace(new RegExp(NBSP, "g"), " ")
StripOf(c) == IF c \in ZW_RE THEN << >> ELSE IF c = NBSP THEN << " " >> ELSE << c >>
stripZeroWidth(s) == MapChars(StripOf, s)

LowerOf(c) ==
  IF \E k \in 1..Len(UpperSeq) : UpperSeq[k] = c
  THEN << LowerSeq[CHOOSE k \in 1..Len(UpperSeq) : UpperSeq[k] = c] >>
  ELSE << c >>
toLocaleLowerCase(s) == MapChars(LowerOf, s)

RECURSIVE normalizeNFC(_)
\* canonical composition: e or E followed by the combining acute accent
normalizeNFC(s) ==
  IF Len(s) < 2 THEN s
  ELSE IF s[2] = COMBACUTE /\ s[1] \in {"e", "E"}
       THEN << IF s[1] = "e" THEN EACUTE ELSE EACUTEUP >> \o normalizeNFC(SubSeq(s, 3, Len(s)))
       ELSE << s[1] >> \o normalizeNFC(Tail(s))

defaultWritingOptions ==
  [nfc |-> TRUE, trim |-> TRUE, collapseWS |-> FALSE, ignorePunct |-> FALSE,
   caseInsensitive |-> FALSE, normalizeQuoteHyphen |-> TRUE, stripZeroWidth |-> TRUE]


(***************************************************************************)
(* normalizeForCompare                                                     *)
(***************************************************************************)
\* ClusterKey that never lower-cases
ClusterKey_NoCaseFold(str, opts) ==
  LET r1 == IF opts.stripZeroWidth THEN stripZeroWidth(str) ELSE str
      r2 == IF opts.normalizeQuoteHyphen THEN mapQuotesHyphens(r1) ELSE r1
  IN  IF r1 = << >> THEN << >>
      ELSE IF opts.nfc THEN normalizeNFC(r2) ELSE r2

\* the comparison text of one cluster: strip, quote/hyphen fold, case fold, NFC
ClusterKey(str, opts) ==
  LET r1 == IF opts.stripZeroWidth THEN stripZeroWidth(str) ELSE str
      r2 == IF opts.normalizeQuoteHyphen THEN mapQuotesHyphens(r1) ELSE r1
      r3 == IF opts.caseInsensitive THEN toLocaleLowerCase(r2) ELSE r2
  IN  IF r1 = << >> THEN << >>
      ELSE IF opts.nfc THEN normalizeNFC(r3) ELSE r3

PreEntry(c, keep, isWS, key) ==
  [start |-> c.start, end |-> c.end, str |-> c.str, keep |-> keep, isWS |-> isWS, key |-> key]

\* PreStep that forgets the whitespace run when it drops a cluster
PreStep_DropEndsRun(c, st, opts) ==
  LET Entry(raw) ==
        LET wasWS == isWhitespaceCluster(raw)
        IN  IF raw = << >>
            THEN [pre |-> Append(st.pre, PreEntry(c, FALSE, FALSE, << >>)),
                  prevKeptWasWS |-> FALSE]
            ELSE IF opts.ignorePunct /\ ~wasWS /\ isPunctCluster(raw)
            THEN [pre |-> Append(st.pre, PreEntry(c, FALSE, FALSE, << >>)),
                  prevKeptWasWS |-> FALSE]
            ELSE IF opts.collapseWS /\ wasWS /\ st.prevKeptWasWS
            THEN [st EXCEPT !.pre = Append(@, PreEntry(c, FALSE, TRUE, << >>))]
            ELSE [pre |-> Append(st.pre,
                                 PreEntry(c, TRUE, wasWS,
                                          IF opts.collapseWS /\ wasWS THEN << " " >> ELSE raw)),
                  prevKeptWasWS |-> IF TRUE /\ wasWS THEN TRUE ELSE (~wasWS /\ FALSE)]
  IN  Bind(ClusterKey(c.str, opts), Entry)

\* 1) cluster-level normalization (without trim yet): one turn of the loop
PreStep(c, st, opts) ==
  LET Entry(raw) ==
        LET wasWS == isWhitespaceCluster(raw)
        IN  IF raw = << >>
            THEN [st EXCEPT !.pre = Append(@, PreEntry(c, FALSE, FALSE, << >>))]
            ELSE IF opts.ignorePunct /\ ~wasWS /\ isPunctCluster(raw)
            THEN [st EXCEPT !.pre = Append(@, PreEntry(c, FALSE, FALSE, << >>))]
            ELSE IF opts.collapseWS /\ wasWS /\ st.prevKeptWasWS
            THEN [st EXCEPT !.pre = Append(@, PreEntry(c, FALSE, TRUE, << >>))]
            ELSE [pre |-> Append(st.pre,
                                 PreEntry(c, TRUE, wasWS,
                                          IF opts.collapseWS /\ wasWS THEN << " " >> ELSE raw)),
                  \* pre[pre.length-1].keep && wasWS ? true : (!wasWS && false)
                  prevKeptWasWS |-> IF TRUE /\ wasWS THEN TRUE ELSE (~wasWS /\ FALSE)]
  IN  Bind(ClusterKey(c.str, opts), Entry)

PreLoop(clusters, opts) ==
  LET Body(st, i) == PreStep(clusters[i], st, opts)
  IN  Iterate(Body, [pre |-> << >>, prevKeptWasWS |-> FALSE], 1, Len(clusters)).pre

\* while (first <= last && pre[first].keep && pre[first].isWS) { keep = false; first++ }
\* first and last are 0-based
TrimLeadingStep(st, last) ==
  IF st.first <= last /\ st.pre[st.first + 1].keep /\ st.pre[st.first + 1].isWS
  THEN [pre |-> [st.pre EXCEPT ![st.first + 1].keep = FALSE], first |-> st.first + 1]
  ELSE st

\* while (last >= first && pre[last].keep && pre[last].isWS) { keep = false; last-- }
TrimTrailingStep(st, first) ==
  IF st.last >= first /\ st.pre[st.last + 1].keep /\ st.pre[st.last + 1].isWS
  THEN [pre |-> [st.pre EXCEPT ![st.last + 1].keep = FALSE], last |-> st.last - 1]
  ELSE st

\* 2) trim leading/trailing whitespace clusters
TrimPre(pre, opts) ==
  IF opts.trim
  THEN LET Lead(st, k) == TrimLeadingStep(st, Len(pre) - 1)
           Trailing(lead) ==
             LET Trail(st, k) == TrimTrailingStep(st, lead.first)
             IN  Iterate(Trail, [pre |-> lead.pre, last |-> Len(pre) - 1], 1, Len(pre)).pre
       IN  Bind(Iterate(Lead, [pre |-> pre, first |-> 0], 1, Len(pre)), Trailing)
  ELSE pre

\* 3) build kept units
KeptUnits(pre) ==
  LET Body(units, i) ==
        IF pre[i].keep
        THEN Append(units, [rawStart |-> pre[i].start, rawEnd |-> pre[i].end,
                            key |-> pre[i].key])
        ELSE units
  IN  Iterate(Body, << >>, 1, Len(pre))

\* the length of a JavaScript array held as a function on 0 .. length-1
ArrayLen(array) == Cardinality(DOMAIN array)

\* RawToUnit whose inner loop runs while i <= p.end
RawToUnit_InclusiveEnd(pre, rawLength) ==
  LET Fill(st, p) ==
        IF pre[p].keep
        THEN [idx |-> st.idx + 1,
              map |-> [i \in 0..(Max(ArrayLen(st.map), pre[p].end + 1) - 1) |->
                         IF pre[p].start <= i /\ i <= pre[p].end THEN st.idx
                         ELSE IF i < ArrayLen(st.map) THEN st.map[i] ELSE -1]]
        ELSE st
  IN  Iterate(Fill, [idx |-> 0, map |-> [i \in 0..(rawLength - 1) |-> -1]], 1, Len(pre)).map

\* raw -> unit mapping: new Array(text.length).fill(-1), then for every kept entry p,
\* in order, rawToUnit[i] = idx for p.start <= i < p.end, idx the 0-based index of its
\* unit. The map is a function on the offsets 0 .. length-1; an assignment past the
\* end of an array lengthens it.
RawToUnit(pre, rawLength) ==
  LET Fill(st, p) ==
        IF pre[p].keep
        THEN [idx |-> st.idx + 1,
              map |-> [i \in 0..(Max(ArrayLen(st.map), pre[p].end) - 1) |->
                         IF pre[p].start <= i /\ i < pre[p].end THEN st.idx
                         ELSE IF i < ArrayLen(st.map) THEN st.map[i] ELSE -1]]
        ELSE st
  IN  Iterate(Fill, [idx |-> 0, map |-> [i \in 0..(rawLength - 1) |-> -1]], 1, Len(pre)).map

KeysOf(units) ==
  LET Body(keys, k) == Append(keys, units[k].key)
  IN  Iterate(Body, << >>, 1, Len(units))

normalizeForCompare(text, opts, hasSeg) ==
  LET Kept(pre) ==
        LET Normalized(units) ==
              [keys |-> KeysOf(units),
               units |-> units,
               rawToUnit |-> RawToUnit(pre, Len(text)),
               rawLength |-> Len(text)]
        IN  Bind(KeptUnits(pre), Normalized)
      Trimmed(pre) == Bind(TrimPre(pre, opts), Kept)
      Clustered(clusters) == Bind(PreLoop(clusters, opts), Trimmed)
  IN  Bind(graphemesWithRanges(text, hasSeg), Clustered)

(***************************************************************************)
(* lcsMatchMask                                                            *)
(***************************************************************************)
\* DpRow that takes dp[i-1][j] where the keys differ, without looking at dp[i][j-1]
DpRow_IgnoresLeft(prev, ai, bKeys) ==
  LET Body(row, j) ==
        Append(row, IF ai = bKeys[j] THEN prev[j] + 1 ELSE prev[j + 1])
  IN  Iterate(Body, << 0 >>, 1, Len(bKeys))

\* row i of the table from row i-1; a row holds dp[i][0..n] at positions 1..n+1
DpRow(prev, ai, bKeys) ==
  LET Body(row, j) ==
        Append(row, IF ai = bKeys[j] THEN prev[j] + 1 ELSE Max(prev[j + 1], row[j]))
  IN  Iterate(Body, << 0 >>, 1, Len(bKeys))

\* dp[0..m] as a sequence of rows, dp[i] at position i+1
LcsTable(aKeys, bKeys) ==
  LET Body(rows, i) == Append(rows, DpRow(rows[i], aKeys[i], bKeys))
  IN  Iterate(Body, << [j \in 1..(Len(bKeys) + 1) |-> 0] >>, 1, Len(aKeys))

\* BacktrackStep of a loop that stops at i > 1 && j > 1
BacktrackStep_StopsEarly(aKeys, bKeys, dp, st) ==
  IF st.i > 1 /\ st.j > 1
  THEN IF aKeys[st.i] = bKeys[st.j]
       THEN [i |-> st.i - 1, j |-> st.j - 1, mask |-> [st.mask EXCEPT ![st.i] = TRUE]]
       ELSE IF dp[st.i][st.j + 1] >= dp[st.i + 1][st.j]
            THEN [st EXCEPT !.i = @ - 1]
            ELSE [st EXCEPT !.j = @ - 1]
  ELSE st

\* BacktrackStep that, on equal keys, marks the typed unit and steps the typed index
\* alone, so that one reference unit can match several typed units
BacktrackStep_KeepsReferenceIndex(aKeys, bKeys, dp, st) ==
  IF st.i > 0 /\ st.j > 0
  THEN IF aKeys[st.i] = bKeys[st.j]
       THEN [i |-> st.i - 1, j |-> st.j, mask |-> [st.mask EXCEPT ![st.i] = TRUE]]
       ELSE IF dp[st.i][st.j + 1] >= dp[st.i + 1][st.j]
            THEN [st EXCEPT !.i = @ - 1]
            ELSE [st EXCEPT !.j = @ - 1]
  ELSE st

\* BacktrackStep that steps the typed index only on dp[i-1][j] > dp[i][j-1], so that a
\* tie steps the reference index
BacktrackStep_ReferenceOnTie(aKeys, bKeys, dp, st) ==
  IF st.i > 0 /\ st.j > 0
  THEN IF aKeys[st.i] = bKeys[st.j]
       THEN [i |-> st.i - 1, j |-> st.j - 1, mask |-> [st.mask EXCEPT ![st.i] = TRUE]]
       ELSE IF dp[st.i][st.j + 1] > dp[st.i + 1][st.j]
            THEN [st EXCEPT !.i = @ - 1]
            ELSE [st EXCEPT !.j = @ - 1]
  ELSE st

\* while (i>0 && j>0): one turn of the backtrack
BacktrackStep(aKeys, bKeys, dp, st) ==
  IF st.i > 0 /\ st.j > 0
  THEN IF aKeys[st.i] = bKeys[st.j]
       THEN [i |-> st.i - 1, j |-> st.j - 1, mask |-> [st.mask EXCEPT ![st.i] = TRUE]]
       ELSE IF dp[st.i][st.j + 1] >= dp[st.i + 1][st.j]
            THEN [st EXCEPT !.i = @ - 1]
            ELSE [st EXCEPT !.j = @ - 1]
  ELSE st

\* classic LCS to mark which typed keys are matched
lcsMatchMask(aKeys, bKeys) ==
  LET Backtrack(dp) ==
        LET Body(st, k) == BacktrackStep(aKeys, bKeys, dp, st)
        IN  Iterate(Body,
                    [i |-> Len(aKeys), j |-> Len(bKeys),
                     mask |-> [i \in 1..Len(aKeys) |-> FALSE]],
                    1, Len(aKeys) + Len(bKeys)).mask
  IN  Bind(LcsTable(aKeys, bKeys), Backtrack)

(***************************************************************************)
(* diffCharsLCS                                                            *)
(***************************************************************************)
\* ExactAfterNormalization whose loop starts at k = 1 and so skips the first key
ExactAfterNormalization_SkipsFirst(tKeys, gKeys) ==
  IF Len(tKeys) = Len(gKeys)
  THEN LET Body(exact, k) == IF exact /\ tKeys[k] # gKeys[k] THEN FALSE ELSE exact
       IN  Iterate(Body, TRUE, 2, Len(tKeys))
  ELSE FALSE

\* Exact after normalization?
ExactAfterNormalization(tKeys, gKeys) ==
  IF Len(tKeys) = Len(gKeys)
  THEN \* if (T.keys[k] !== G.keys[k]) { exact = false; break; }
       LET Body(exact, k) == IF exact /\ tKeys[k] # gKeys[k] THEN FALSE ELSE exact
       IN  Iterate(Body, TRUE, 1, Len(tKeys))
  ELSE FALSE

\* the ok field of a run: true, false or null
OkOf(b) == IF b THEN "true" ELSE "false"

\* RunStep that pushes the raw text before a unit as a mismatch run
RunStep_GapAsMismatch(typedRaw, unit, ok, st) ==
  LET gap == IF st.pos < unit.rawStart
             THEN Append(st.runs, [text |-> Slice(typedRaw, st.pos, unit.rawStart),
                                   ok |-> "false"])
             ELSE st.runs
  IN  [runs |-> Append(gap, [text |-> Slice(typedRaw, unit.rawStart, unit.rawEnd),
                             ok |-> OkOf(ok)]),
       pos |-> unit.rawEnd]

\* runs over the typed raw string: one turn of the loop over T.units
RunStep(typedRaw, unit, ok, st) ==
  LET gap == IF st.pos < unit.rawStart
             THEN Append(st.runs, [text |-> Slice(typedRaw, st.pos, unit.rawStart),
                                   ok |-> "null"])
             ELSE st.runs
  IN  [runs |-> Append(gap, [text |-> Slice(typedRaw, unit.rawStart, unit.rawEnd),
                             ok |-> OkOf(ok)]),
       pos |-> unit.rawEnd]

\* BuildRuns without the run for the raw text after the last unit
BuildRuns_NoTrailingRun(typedRaw, T, mask) ==
  LET Body(st, u) == RunStep(typedRaw, T.units[u], mask[u], st)
  IN  Iterate(Body, [runs |-> << >>, pos |-> 0], 1, Len(T.units)).runs

BuildRuns(typedRaw, T, mask) ==
  LET Body(st, u) == RunStep(typedRaw, T.units[u], mask[u], st)
      Trailing(body) ==
        IF body.pos < T.rawLength
        THEN Append(body.runs, [text |-> Slice(typedRaw, body.pos, Len(typedRaw)),
                                ok |-> "null"])
        ELSE body.runs
  IN  Bind(Iterate(Body, [runs |-> << >>, pos |-> 0], 1, Len(T.units)), Trailing)

\* while (m < T.keys.length && s + m < G.keys.length && T.keys[m] === G.keys[s + m]) m++
ContigLen(tKeys, gKeys, s) ==
  LET Body(m, k) ==
        IF m < Len(tKeys) /\ s + m < Len(gKeys) /\ tKeys[m + 1] = gKeys[s + m + 1]
        THEN m + 1 ELSE m
  IN  Iterate(Body, 0, 1, Len(tKeys))

\* AlignStep that replaces the best start on m >= matchedLen
AlignStep_LaterOnTie(tKeys, gKeys, s, st) ==
  IF st.done \/ tKeys[1] # gKeys[s + 1] THEN st
  ELSE LET Best(m) ==
             [startIdx |-> IF m >= st.matchedLen THEN s ELSE st.startIdx,
              matchedLen |-> IF m >= st.matchedLen THEN m ELSE st.matchedLen,
              done |-> m = Len(tKeys)]
       IN  Bind(ContigLen(tKeys, gKeys, s), Best)

\* one turn of the loop over the reference positions s (0-based); done after the break
AlignStep(tKeys, gKeys, s, st) ==
  IF st.done \/ tKeys[1] # gKeys[s + 1] THEN st
  ELSE LET Best(m) ==
             [startIdx |-> IF m > st.matchedLen THEN s ELSE st.startIdx,
              matchedLen |-> IF m > st.matchedLen THEN m ELSE st.matchedLen,
              done |-> m = Len(tKeys)]
       IN  Bind(ContigLen(tKeys, gKeys, s), Best)

\* FindAlignment whose scan of the reference positions starts at s = 1
FindAlignment_SkipsFirstPosition(tKeys, gKeys) ==
  IF Len(tKeys) > 0
  THEN LET Body(st, k) == AlignStep(tKeys, gKeys, k - 1, st)
       IN  Iterate(Body, [startIdx |-> Null, matchedLen |-> 0, done |-> FALSE],
                   2, Len(gKeys))
  ELSE [startIdx |-> Null, matchedLen |-> 0, done |-> FALSE]

\* contiguous alignment of the T-prefix somewhere inside G
FindAlignment(tKeys, gKeys) ==
  IF Len(tKeys) > 0
  THEN LET Body(st, k) == AlignStep(tKeys, gKeys, k - 1, st)
       IN  Iterate(Body, [startIdx |-> Null, matchedLen |-> 0, done |-> FALSE],
                   1, Len(gKeys))
  ELSE [startIdx |-> Null, matchedLen |-> 0, done |-> FALSE]

\* units[idx] of a JavaScript array is undefined for an idx outside 0 .. length-1, and
\* reading .rawStart or .rawEnd of undefined throws a TypeError
InRange(units, idx) == 0 <= idx /\ idx < Len(units)

\* what a call that threw hands to its caller
TypeError == [threw |-> TRUE]
Threw(result) == "threw" \in DOMAIN result

\* MissingTail that does not test tailUnitIdxByTyped < G.units.length
MissingTail_NoLengthTest(targetRaw, T, G, startIdx) ==
  IF startIdx # Null
  THEN IF InRange(G.units, startIdx + Len(T.keys))
       THEN LET at == G.units[startIdx + Len(T.keys) + 1].rawStart
            IN  [raw |-> Slice(targetRaw, at, Len(targetRaw)), index |-> at, threw |-> FALSE]
       ELSE [raw |-> << >>, index |-> Null, threw |-> TRUE]
  ELSE [raw |-> << >>, index |-> Null, threw |-> FALSE]

\* Tail by "how much of T was typed"
MissingTail(targetRaw, T, G, startIdx) ==
  IF startIdx # Null /\ startIdx + Len(T.keys) < Len(G.units)
  THEN IF InRange(G.units, startIdx + Len(T.keys))
       THEN LET at == G.units[startIdx + Len(T.keys) + 1].rawStart
            IN  [raw |-> Slice(targetRaw, at, Len(targetRaw)), index |-> at, threw |-> FALSE]
       ELSE [raw |-> << >>, index |-> Null, threw |-> TRUE]
  ELSE [raw |-> << >>, index |-> Null, threw |-> FALSE]

\* MissingHead that reports a head for an alignment at startIdx = 0 as well
MissingHead_AtZeroToo(targetRaw, G, startIdx) ==
  IF startIdx # Null
  THEN IF InRange(G.units, startIdx)
       THEN LET at == G.units[startIdx + 1].rawStart
            IN  [raw |-> Slice(targetRaw, 0, at), index |-> at, threw |-> FALSE]
       ELSE [raw |-> << >>, index |-> Null, threw |-> TRUE]
  ELSE [raw |-> << >>, index |-> Null, threw |-> FALSE]

\* MissingHead that ends the head at the start of the unit before startIdx
MissingHead_OffByOne(targetRaw, G, startIdx) ==
  IF startIdx # Null /\ startIdx > 0
  THEN IF InRange(G.units, startIdx - 1)
       THEN LET at == G.units[startIdx].rawStart
            IN  [raw |-> Slice(targetRaw, 0, at), index |-> at, threw |-> FALSE]
       ELSE [raw |-> << >>, index |-> Null, threw |-> TRUE]
  ELSE [raw |-> << >>, index |-> Null, threw |-> FALSE]

\* Head (if user started later than the verse start)
MissingHead(targetRaw, G, startIdx) ==
  IF startIdx # Null /\ startIdx > 0
  THEN IF InRange(G.units, startIdx)
       THEN LET at == G.units[startIdx + 1].rawStart
            IN  [raw |-> Slice(targetRaw, 0, at), index |-> at, threw |-> FALSE]
       ELSE [raw |-> << >>, index |-> Null, threw |-> TRUE]
  ELSE [raw |-> << >>, index |-> Null, threw |-> FALSE]

\* MidRange that ends the middle at the rawStart of the last matched unit
MidRange_EndAtRawStart(G, startIdx, matchedLen) ==
  IF startIdx # Null
  THEN IF InRange(G.units, startIdx)
          /\ (matchedLen > 0 => InRange(G.units, startIdx + matchedLen - 1))
       THEN [start |-> G.units[startIdx + 1].rawStart,
             end |-> IF matchedLen > 0
                     THEN G.units[startIdx + matchedLen].rawStart
                     ELSE G.units[startIdx + 1].rawStart,
             threw |-> FALSE]
       ELSE [start |-> Null, end |-> Null, threw |-> TRUE]
  ELSE [start |-> Null, end |-> Null, threw |-> FALSE]

\* MidRange whose indices start at 0 instead of null
MidRange_ZeroInit(G, startIdx, matchedLen) ==
  IF startIdx # Null
  THEN IF InRange(G.units, startIdx)
          /\ (matchedLen > 0 => InRange(G.units, startIdx + matchedLen - 1))
       THEN [start |-> G.units[startIdx + 1].rawStart,
             end |-> IF matchedLen > 0
                     THEN G.units[startIdx + matchedLen].rawEnd
                     ELSE G.units[startIdx + 1].rawStart,
             threw |-> FALSE]
       ELSE [start |-> Null, end |-> Null, threw |-> TRUE]
  ELSE [start |-> 0, end |-> 0, threw |-> FALSE]

\* mid slice (based on "how much matched contiguously")
MidRange(G, startIdx, matchedLen) ==
  IF startIdx # Null
  THEN IF InRange(G.units, startIdx)
          /\ (matchedLen > 0 => InRange(G.units, startIdx + matchedLen - 1))
       THEN [start |-> G.units[startIdx + 1].rawStart,
             end |-> IF matchedLen > 0
                     THEN G.units[startIdx + matchedLen].rawEnd
                     ELSE G.units[startIdx + 1].rawStart,
             threw |-> FALSE]
       ELSE [start |-> Null, end |-> Null, threw |-> TRUE]
  ELSE [start |-> Null, end |-> Null, threw |-> FALSE]

\* one call of diffCharsLCS: its locals T, G, mask, startIdx and matchedLen, and what
\* it returns
DiffCall(typedRaw, targetRaw, opts, hasSeg) ==
  LET Compare(T, G) ==
        LET Result(mask, al) ==
              LET tail == MissingTail(targetRaw, T, G, al.startIdx)
                  head == MissingHead(targetRaw, G, al.startIdx)
                  mid == MidRange(G, al.startIdx, al.matchedLen)
              IN  [T |-> T, G |-> G, mask |-> mask,
                   startIdx |-> al.startIdx, matchedLen |-> al.matchedLen,
                   result |->
                     IF tail.threw \/ head.threw \/ mid.threw THEN TypeError ELSE
                     [runs |-> BuildRuns(typedRaw, T, mask),
                      exact |-> ExactAfterNormalization(T.keys, G.keys),
                      missingHeadRaw |-> head.raw,
                      missingHeadEndRawIndex |-> head.index,
                      missingTailRaw |-> tail.raw,
                      missingTailStartRawIndex |-> tail.index,
                      midStartRawIndex |-> mid.start,
                      midEndRawIndex |-> mid.end]]
            WithMask(mask) ==
              LET WithAlignment(al) == Result(mask, al)
              IN  Bind(FindAlignment(T.keys, G.keys), WithAlignment)
        IN  Bind(lcsMatchMask(T.keys, G.keys), WithMask)
      WithTyped(T) ==
        LET WithTarget(G) == Compare(T, G)
        IN  Bind(normalizeForCompare(targetRaw, opts, hasSeg), WithTarget)
  IN  Bind(normalizeForCompare(typedRaw, opts, hasSeg), WithTyped)

diffCharsLCS(typedRaw, targetRaw, opts, hasSeg) ==
  DiffCall(typedRaw, targetRaw, opts, hasSeg).result

(***************************************************************************)
(* The fixed scheduler: bucketFromDays, makeInitialSrs, applyFixedSchedule *)
(* and applyLabel.  The source counts time in milliseconds, in numbers     *)
(* that are exact up to 2^53; the model counts it in seconds, which keeps  *)
(* every time stamp within the 32-bit integers of TLC.                     *)
(***************************************************************************)
\* const day = 24 * 60 * 60 * 1000 (milliseconds): one day, in seconds
day == 24 * 60 * 60

BUCKETS == << "0D", "1D", "3D", "7D", "30D", "90D" >>

bucketFromDays(d) ==
  IF d <= 0 THEN "0D"
  ELSE IF d <= 1 THEN "1D"
  ELSE IF d <= 3 THEN "3D"
  ELSE IF d <= 7 THEN "7D"
  ELSE IF d <= 30 THEN "30D"
  ELSE IF d <= 90 THEN "90D"
  ELSE "90D"

\* map labels to exact day intervals
Labels == {"Again", "1D", "3D", "7D", "30D", "90D"}
LABEL_TO_DAYS ==
  [label \in Labels |->
     CASE label = "Again" -> 0
       [] label = "1D" -> 1
       [] label = "3D" -> 3
       [] label = "7D" -> 7
       [] label = "30D" -> 30
       [] label = "90D" -> 90]

\* Both schedules start at 0D and are due now; ease, reps, lapses and leech are the
\* legacy fields the fixed scheduling carries along
makeInitialSrs(t) ==
  LET sub == [bucket |-> "0D", nextDue |-> 0, updatedAt |-> t, ease |-> "2.5",
              reps |-> 0, lapses |-> 0, intervalDays |-> 0, leech |-> FALSE]
  IN  [slow |-> sub, fast |-> sub]

\* settings.jitterPct, in thousandths: 0.1
jitterPctDefault == 100

\* Math.random() takes the values draw / JitterDraws, draw in 0 .. JitterDraws - 1
JitterDraws == 8

\* Math.round(interval * j) for j = 1 + (random * 2 * jitterPct - jitterPct), with
\* random = draw / JitterDraws and jitterPct in thousandths: the product is the
\* fraction interval * (1000 * N + (2 * draw - N) * jitterPct) / (1000 * N), and
\* Math.round(x) = floor(x + 1/2)
RoundJittered(interval, jitterPct, draw) ==
  (2 * interval * (1000 * JitterDraws + (2 * draw - JitterDraws) * jitterPct)
     + 1000 * JitterDraws) \div (2000 * JitterDraws)

\* days is one of the integers of LABEL_TO_DAYS, so Math.round(days) = days;
\* nowTs is what now() returns
applyFixedSchedule(sub, days, jitterPct, draw, nowTs) ==
  LET rounded == Max(0, days)
      interval == IF rounded > 0 /\ jitterPct > 0
                  THEN Max(1, RoundJittered(rounded, jitterPct, draw))
                  ELSE rounded
  IN  [sub EXCEPT !.bucket = bucketFromDays(interval),
                  !.nextDue = nowTs + interval * day,
                  !.updatedAt = nowTs,
                  !.intervalDays = interval]

\* fast for recognition; slow otherwise
ScheduleKey(appMode) == IF appMode = "recognition" THEN "fast" ELSE "slow"

\* applyLabel that writes the slow schedule in every mode
applyLabel_AlwaysSlow(card, label, appMode, jitterPct, draw, nowTs, nowCard) ==
  LET days == IF label \in DOMAIN LABEL_TO_DAYS THEN LABEL_TO_DAYS[label] ELSE 0
      updatedSub == applyFixedSchedule(card.srs["slow"], days, jitterPct, draw, nowTs)
  IN  [card EXCEPT !.srs = [card.srs EXCEPT !["slow"] = updatedSub],
                   !.updatedAt = nowCard]

\* Apply chosen fixed label to the correct schedule; nowTs is the now() of
\* applyFixedSchedule and nowCard the later now() of the card's updatedAt
applyLabel(card, label, appMode, jitterPct, draw, nowTs, nowCard) ==
  LET key == ScheduleKey(appMode)
      days == IF label \in DOMAIN LABEL_TO_DAYS THEN LABEL_TO_DAYS[label] ELSE 0
      updatedSub == applyFixedSchedule(card.srs[key], days, jitterPct, draw, nowTs)
  IN  [card EXCEPT !.srs = [card.srs EXCEPT ![key] = updatedSub],
                   !.updatedAt = nowCard]

(***************************************************************************)
(* The app: its cards, the session queue and the current card              *)
(***************************************************************************)
\* the card a line of an imported file gives: migrateCardSRS gives it two fresh
\* schedules; order is its 1-based place in its pack
NewCard(id, text, order, t) ==
  [id |-> id, ref |-> id, text |-> text, pack |-> "pack", srs |-> makeInitialSrs(t),
   order |-> order, createdAt |-> t, updatedAt |-> t]

\* currentCard is null
NoCard == 0

\* cards.find((c) => c.id === id): the 1-based place of the first card with this id,
\* NoCard when there is none
FindCard(cardList, id) ==
  IF \E i \in 1..Len(cardList) : cardList[i].id = id
  THEN CHOOSE i \in 1..Len(cardList) :
          /\ cardList[i].id = id
          /\ \A q \in 1..(i - 1) : cardList[q].id # id
  ELSE NoCard

\* todayKey() and isoDay(ts): the day a time stamp lies in, as a day number
todayKey(t) == t \div day

\* settings.dailyCapSlow and settings.dailyCapFast, which capLog snapshots for the day
dailyCapSlow == 60
dailyCapFast == 200

\* dailyReviewed: the history entries of today, slow ones and others
dailyReviewed(entries, t) ==
  [slow |-> Cardinality({ h \in 1..Len(entries) :
                            todayKey(entries[h].ts) = todayKey(t) /\ entries[h].mode = "slow" }),
   fast |-> Cardinality({ h \in 1..Len(entries) :
                            todayKey(entries[h].ts) = todayKey(t) /\ entries[h].mode # "slow" })]

dailyRemaining(appMode, entries, t) ==
  LET goal == IF appMode = "recognition" THEN dailyCapFast ELSE dailyCapSlow
      done == IF appMode = "recognition" THEN dailyReviewed(entries, t).fast
              ELSE dailyReviewed(entries, t).slow
  IN  Max(0, goal - done)

\* the places of the cards whose schedule of the mode is due at t, in the order of
\* the list (the cards of the one pack are listed by their order field), cut to the
\* number that remains of the daily goal
dueCards(cardList, appMode, entries, t) ==
  LET key == ScheduleKey(appMode)
      Body(list, i) == IF cardList[i].srs[key].nextDue <= t THEN Append(list, i) ELSE list
      Cut(list) == SubSeq(list, 1, IF dailyRemaining(appMode, entries, t) < Len(list)
                                   THEN dailyRemaining(appMode, entries, t) ELSE Len(list))
  IN  Bind(Iterate(Body, << >>, 1, Len(cardList)), Cut)

\* Writing: always from sessionQueue; others: from sessionQueue if present else
\* dueCards[0]. The place of the current card in the list, or NoCard.
currentCard(cardList, appMode, queue, entries, t) ==
  IF Len(queue) > 0 THEN FindCard(cardList, queue[1])
  ELSE IF appMode = "writing" THEN NoCard
  ELSE LET First(due) == IF due = << >> THEN NoCard ELSE due[1]
       IN  Bind(dueCards(cardList, appMode, entries, t), First)

\* the id of the current card, "" when there is none (currentCard?.id)
CurrentId(cardList, appMode, queue, entries, t) ==
  LET IdOf(i) == IF i = NoCard THEN "" ELSE cardList[i].id
  IN  Bind(currentCard(cardList, appMode, queue, entries, t), IdOf)

\* popQueueIfHeadIs without the test of the head
popQueueIfHeadIs_AnyHead(queue, id) ==
  IF Len(queue) > 0 THEN Tail(queue) ELSE queue

\* q.length && q[0] === id ? q.slice(1) : q
popQueueIfHeadIs(queue, id) ==
  IF Len(queue) > 0 /\ queue[1] = id THEN Tail(queue) ELSE queue

(***************************************************************************)
(* The inputs of the writing card                                          *)
(***************************************************************************)
\* Len(value) + Len(cardText) of the inputs over StructureAlphabet
MaxTotalLen == 4
\* Len(value) + Len(cardText) of the inputs over CharacterAlphabet and QuoteAlphabet
MaxCharTotalLen == 3
\* Len(value) + Len(cardText) of the inputs over AlignmentAlphabet
MaxAlignTotalLen == 6
\* Len(value) + Len(cardText) of the inputs submitted under every combination of toggles
MaxToggleTotalLen == 2
\* the number of submits of a session
MaxCalls == 3

\* content, whitespace, punctuation, and a zero-width mark that joins the cluster before it
StructureAlphabet == {"a", " ", ".", ZWJ}
\* case and composition variants of one another
CharacterAlphabet == {"e", "E", COMBACUTE, EACUTE}
\* quote variants of one another, and content
QuoteAlphabet == {"a", "'", RSQUO}
\* the halves of a surrogate pair, which may come paired, unpaired or reversed
SurrogateAlphabet == {"a", HISURR, LOSURR}
\* two letters, for references in which the typed text starts at several places
AlignmentAlphabet == {"a", "b"}
\* the whitespace code units that collapse to one space, content and punctuation
WhitespaceAlphabet == {" ", TAB, "a", "."}
\* one code unit for each kind of cluster a toggle acts on
ToggleAlphabet == {"E", " ", RSQUO, ZWJ}
\* the ellipsis glyph and the full stop it folds to
EllipsisAlphabet == {".", ELLIPSIS}

RECURSIVE StringsUpTo(_, _)
\* the strings over alphabet of length at most n
StringsUpTo(alphabet, n) ==
  IF n = 0 THEN { << >> }
  ELSE LET shorter == StringsUpTo(alphabet, n - 1)
       IN  shorter \cup { Append(s, c) : s \in shorter, c \in alphabet }

AllOptions ==
  [nfc : BOOLEAN, trim : BOOLEAN, collapseWS : BOOLEAN, ignorePunct : BOOLEAN,
   caseInsensitive : BOOLEAN, normalizeQuoteHyphen : BOOLEAN, stripZeroWidth : BOOLEAN]

\* Each family of inputs varies the toggles that can change the comparison units of
\* its alphabet; the other toggles stay at their defaults.
StructureOptions ==
  { o \in AllOptions : o.nfc /\ o.normalizeQuoteHyphen /\ ~o.caseInsensitive }
CharacterOptions ==
  { o \in AllOptions : /\ o.trim /\ ~o.collapseWS /\ o.stripZeroWidth
                       /\ ~o.ignorePunct /\ o.normalizeQuoteHyphen }
WhitespaceOptions ==
  { o \in AllOptions : /\ o.stripZeroWidth /\ o.normalizeQuoteHyphen
                       /\ ~o.caseInsensitive /\ o.nfc }
QuoteOptions ==
  { o \in AllOptions : /\ o.trim /\ ~o.collapseWS /\ o.stripZeroWidth
                       /\ ~o.caseInsensitive /\ o.nfc }

\* the pairs of strings over alphabet whose lengths sum to at most n
PairInput(alphabet, n, options) ==
  /\ value \in StringsUpTo(alphabet, n)
  /\ cardText \in StringsUpTo(alphabet, n - Len(value))
  /\ writingOpts \in options

\* a string over alphabet of length at most n, typed against itself
SelfInput(alphabet, n, options) ==
  /\ value \in StringsUpTo(alphabet, n)
  /\ cardText = value
  /\ writingOpts \in options

\* Both branches of graphemesWithRanges give the same units for a text without an
\* Extend code unit, so the fallback is drawn only for texts that hold one, and for
\* texts with surrogate halves, which codePointAt has to pair.
SegmenterChoices(typed, reference) ==
  IF \E k \in 1..Len(typed \o reference) :
        \/ IsExtendUnit((typed \o reference)[k])
        \/ (typed \o reference)[k] \in {HISURR, LOSURR}
  THEN BOOLEAN ELSE {TRUE}

ReferenceGenesis ==
  << "I", "n", " ", "t", "h", "e", " ", "b", "e", "g", "i", "n", "n", "i", "n", "g",
     " ", "G", "o", "d", " ", "c", "r", "e", "a", "t", "e", "d", " ", "t", "h", "e",
     " ", "h", "e", "a", "v", "e", "n", "s", " ", "a", "n", "d", " ", "t", "h", "e",
     " ", "e", "a", "r", "t", "h", "." >>
TypedScenarioB ==
  << "G", "o", "d", " ", "c", "r", "e", "a", "t", "e", "d", " ", "t", "h", "e", " ",
     "h", "e", "a", "v", "e", "n", "s", " ", "a", "n", "d", " ", "t", "h", "e", " ",
     "e", "a", "r", "t", "h", "." >>
TypedScenarioC ==
  << "G", "o", "d", " ", "m", "a", "k", "e", "d", " ", "t", "h", "e", " ", "h", "e",
     "a", "v", "e", "n", "s", " ", "a", "n", "d", " ", "t", "h", "e", " ", "e", "a",
     "r", "t", "h", "." >>
ReferencePsalm ==
  << "T", "h", "e", " ", "L", "o", "r", "d", " ", "i", "s", " ", "m", "y", " ", "s",
     "h", "e", "p", "h", "e", "r", "d", ";", " ", "I", " ", "s", "h", "a", "l", "l",
     " ", "n", "o", "t", " ", "w", "a", "n", "t", "." >>
TypedScenarioA ==
  << "t", "h", "e", " ", "l", "o", "r", "d", " ", "i", "s", " ", "m", "y", " ", "s",
     "h", "e", "p", "h", "e", "r", "d", " ", "I", " ", "s", "h", "a", "l", "l", " ",
     "n", "o", "t", " ", "w", "a", "n", "t" >>
OptionsScenarioA ==
  [defaultWritingOptions EXCEPT !.caseInsensitive = TRUE, !.ignorePunct = TRUE]

Scenarios ==
  { [typed |-> TypedScenarioA, reference |-> ReferencePsalm, opts |-> OptionsScenarioA],
    [typed |-> TypedScenarioB, reference |-> ReferenceGenesis, opts |-> defaultWritingOptions],
    [typed |-> TypedScenarioC, reference |-> ReferenceGenesis, opts |-> defaultWritingOptions],
    [typed |-> ReferenceGenesis, reference |-> ReferenceGenesis, opts |-> defaultWritingOptions],
    [typed |-> << >>, reference |-> ReferencePsalm, opts |-> OptionsScenarioA] }

\* feedback before the first submit: useState(null)
NoFeedback == [submitted |-> FALSE]

\* the bounded families of inputs: every pair of texts over an alphabet up to a total
\* length, under the options that act on the alphabet
BoundedInputs ==
  \/ PairInput(StructureAlphabet, MaxTotalLen, StructureOptions)
  \/ SelfInput(StructureAlphabet, MaxTotalLen, StructureOptions)
  \/ PairInput(CharacterAlphabet, MaxCharTotalLen, CharacterOptions)
  \/ SelfInput(CharacterAlphabet, MaxCharTotalLen, CharacterOptions)
  \/ PairInput(QuoteAlphabet, MaxCharTotalLen, QuoteOptions)
  \/ PairInput(SurrogateAlphabet, MaxCharTotalLen, CharacterOptions)
  \/ PairInput(WhitespaceAlphabet, MaxCharTotalLen, WhitespaceOptions)
  \/ PairInput(AlignmentAlphabet, MaxAlignTotalLen, {defaultWritingOptions})
  \/ PairInput(ToggleAlphabet, MaxToggleTotalLen, AllOptions)
  \/ PairInput(EllipsisAlphabet, MaxTotalLen, QuoteOptions)

\* the verses of the scenarios
ScenarioInputs ==
  \E sc \in Scenarios :
     /\ value = sc.typed
     /\ cardText = sc.reference
     /\ writingOpts = sc.opts

\* the app in a writing session on the cards of cardList with this queue of their
\* ids, started at time 0 with nothing reviewed yet
WritingSession(cardList, queue) ==
  /\ cards = cardList
  /\ mode = "writing"
  /\ sessionQueue = queue
  /\ history = << >>
  /\ completed = 0
  /\ daily = [key |-> todayKey(0), slow |-> 0, fast |-> 0]
  /\ sessionStart = 0
  /\ writingSubmitted = FALSE
  /\ clock = 0
  /\ graded = << >>

Init ==
  /\ BoundedInputs \/ ScenarioInputs
  /\ hasSegmenter \in SegmenterChoices(value, cardText)
  /\ feedback = NoFeedback
  /\ calls = << >>
  /\ WritingSession(<< NewCard("c1", cardText, 1, 0) >>, << "c1" >>)

\* a call of diffCharsLCS as the history keeps it: the arguments, the locals, the result
CallOf(typed, reference, opts, hasSeg) ==
  LET Entry(call) ==
        [typed |-> typed, reference |-> reference, opts |-> opts,
         T |-> call.T, G |-> call.G, mask |-> call.mask,
         startIdx |-> call.startIdx, matchedLen |-> call.matchedLen,
         result |-> call.result]
  IN  Bind(DiffCall(typed, reference, opts, hasSeg), Entry)

\* the writing card is on the page: writing mode with a current card
Mounted ==
  mode = "writing" /\ currentCard(cards, mode, sessionQueue, history, clock) # NoCard

\* handleSubmit: setFeedback(diffCharsLCS(value, card.text, opts)), then onSubmit, which
\* is setWritingSubmitted(true); a call that throws leaves both as they were. The
\* editor and its Submit button are shown only while there is no feedback.
handleSubmit ==
  /\ Mounted
  /\ feedback = NoFeedback
  /\ Len(calls) < MaxCalls
  /\ calls' = Append(calls, CallOf(value, cardText, writingOpts, hasSegmenter))
  /\ feedback' = IF Threw(calls'[Len(calls')].result) THEN feedback
                 ELSE [submitted |-> TRUE, diff |-> calls'[Len(calls')].result]
  /\ writingSubmitted' = IF Threw(calls'[Len(calls')].result) THEN writingSubmitted ELSE TRUE
  /\ UNCHANGED << value, cardText, writingOpts, hasSegmenter >>
  /\ UNCHANGED << cards, mode, sessionQueue, history, graded, completed, daily, sessionStart, clock >>

Next == handleSubmit

Spec == Init /\ [][Next]_vars

\* the writing card with the bounded inputs alone: the texts are short enough for every
\* selection of typed units to be enumerated
BoundedInit ==
  /\ BoundedInputs
  /\ hasSegmenter \in SegmenterChoices(value, cardText)
  /\ feedback = NoFeedback
  /\ calls = << >>
  /\ WritingSession(<< NewCard("c1", cardText, 1, 0) >>, << "c1" >>)

BoundedSpec == BoundedInit /\ [][Next]_vars

(***************************************************************************)
(* A session: the user types, submits, is shown another card, and the      *)
(* settings may change, so that diffCharsLCS is called several times.      *)
(***************************************************************************)
\* e followed by the combining acute accent, which the segmenter joins
DecomposedE == << "e", COMBACUTE >>
SessionTyped == { DecomposedE }
\* the cards of the session
SessionDeck ==
  << NewCard("c1", << EACUTE >>, 1, 0), NewCard("c2", << "e", COMBACUTE, "a" >>, 2, 0) >>
SessionCards == { SessionDeck[i].text : i \in 1..Len(SessionDeck) }
SessionOptions == { defaultWritingOptions, [defaultWritingOptions EXCEPT !.nfc = FALSE] }

\* the sequences of one or more different card ids: the verses picked in the list
Selections(cardList) ==
  LET ids == { cardList[i].id : i \in 1..Len(cardList) }
  IN  { q \in UNION { [1..n -> ids] : n \in 1..Len(cardList) } :
          \A i, j \in 1..Len(q) : i # j => q[i] # q[j] }

\* a writing session on cards of the session
SessionInit ==
  /\ value = << >>
  /\ \E queue \in Selections(SessionDeck) : WritingSession(SessionDeck, queue)
  /\ cardText = cards[FindCard(cards, sessionQueue[1])].text
  /\ writingOpts \in SessionOptions
  /\ hasSegmenter \in BOOLEAN
  /\ feedback = NoFeedback
  /\ calls = << >>

\* What the next render does to the writing card and to writingSubmitted. The card is
\* keyed by the id of the current card: it keeps its state while it stays on the page
\* with the same card, and starts from useState("") and useState(null) otherwise.
\* useEffect(() => setWritingSubmitted(false), [settings.mode, currentCard?.id]) runs
\* when the mode or the id changed; bySetter is what the handler left in
\* writingSubmitted.
Rerender(bySetter) ==
  LET before == CurrentId(cards, mode, sessionQueue, history, clock)
      after == CurrentId(cards', mode', sessionQueue', history', clock')
  IN  /\ IF mode' = "writing" /\ after # ""
         THEN /\ cardText' = cards'[FindCard(cards', after)].text
              /\ IF mode = "writing" /\ before = after
                 THEN UNCHANGED << value, feedback >>
                 ELSE value' = << >> /\ feedback' = NoFeedback
         ELSE /\ cardText' = << >>
              /\ value' = << >>
              /\ feedback' = NoFeedback
      /\ writingSubmitted' = IF mode' # mode \/ after # before THEN FALSE ELSE bySetter

\* onChange of the editor: setValue(e.target.value)
setValue ==
  /\ Mounted
  /\ feedback = NoFeedback
  /\ value' \in (SessionTyped \cup { << >> }) \ { value }
  /\ UNCHANGED << cardText, writingOpts, hasSegmenter, feedback, calls >>
  /\ UNCHANGED appVars

\* onStartWriting(ids): verses picked in the list are queued into writing mode
onStartWriting ==
  \E ids \in Selections(cards) :
     /\ mode' = "writing"
     /\ sessionQueue' = ids
     /\ completed' = 0
     /\ sessionStart' = clock
     /\ UNCHANGED << cards, history, graded, daily, clock, writingOpts, hasSegmenter, calls >>
     /\ Rerender(FALSE)

\* the writing options of the settings change: opts = settings.writing
setOptions ==
  /\ writingOpts' \in SessionOptions \ { writingOpts }
  /\ UNCHANGED << value, cardText, hasSegmenter, feedback, calls >>
  /\ UNCHANGED appVars

SessionNext == handleSubmit \/ setValue \/ onStartWriting \/ setOptions

SessionSpec == SessionInit /\ [][SessionNext]_vars

(***************************************************************************)
(* Grading: the app with two cards, reviewed in the three modes.           *)
(***************************************************************************)
\* the number of grades of a run
MaxGrades == 1
\* the number of times the clock moves on by one unit within a day
MaxTicks == 1
\* the number of midnights of a run
MaxDays == 1

Modes == {"recognition", "review", "writing"}

\* two cards with the same text: a new card, and a card that was graded 3D in review
\* mode when it was created
GradeDeck ==
  << NewCard("c1", << "a" >>, 1, 0),
     applyLabel(NewCard("c2", << "a" >>, 2, 0), "3D", "review", jitterPctDefault, 0, 0, 0) >>

\* the app after loading the cards, with the default settings, before any session
GradeInit ==
  /\ cards = GradeDeck
  /\ mode = "recognition"
  /\ sessionQueue = << >>
  /\ history = << >>
  /\ completed = 0
  /\ daily = [key |-> todayKey(0), slow |-> 0, fast |-> 0]
  /\ sessionStart = 0
  /\ writingSubmitted = FALSE
  /\ clock = 0
  /\ graded = << >>
  /\ value = << >>
  /\ cardText = << >>
  /\ writingOpts = defaultWritingOptions
  /\ hasSegmenter = TRUE
  /\ feedback = NoFeedback
  /\ calls = << >>

\* the values of Math.random() a run draws: the least, the middle and the greatest
Draws == { 0, JitterDraws \div 2, JitterDraws - 1 }

\* what a call of now() may return when the last call returned t
Reads(t) == IF t % day < MaxTicks THEN {t, t + 1} ELSE {t}

\* the handler of the grade buttons and of the keyboard shortcuts. The buttons are shown
\* in writing mode only once the card is submitted, and the shortcuts are off in
\* writing mode. draw is the value of Math.random(); nowTs, nowCard and ts are the
\* values of the three calls of now(), in this order.
handleGrade ==
  \E label \in Labels, draw \in Draws :
  \E nowTs \in Reads(clock) : \E nowCard \in Reads(nowTs) : \E ts \in Reads(nowCard) :
     LET cur == currentCard(cards, mode, sessionQueue, history, clock)
         scheduleKey == ScheduleKey(mode)
     IN  /\ cur # NoCard
         /\ mode = "writing" => writingSubmitted
         /\ Len(history) < MaxGrades
         /\ LET fromBucket == cards[cur].srs[scheduleKey].bucket
                updated == applyLabel(cards[cur], label, mode, jitterPctDefault, draw,
                                      nowTs, nowCard)
                toBucket == updated.srs[scheduleKey].bucket
                key == todayKey(ts)
                base == IF daily.key = key THEN daily ELSE [key |-> key, slow |-> 0, fast |-> 0]
            IN  /\ cards' = [i \in 1..Len(cards) |->
                               IF cards[i].id = cards[cur].id THEN updated ELSE cards[i]]
                /\ completed' = completed + 1
                /\ daily' = IF scheduleKey = "fast" THEN [base EXCEPT !.fast = @ + 1]
                            ELSE [base EXCEPT !.slow = @ + 1]
                /\ history' = Append(history,
                                     [id |-> Len(history) + 1, cardId |-> updated.id,
                                      pack |-> updated.pack, ref |-> updated.ref,
                                      mode |-> scheduleKey, fromBucket |-> fromBucket,
                                      toBucket |-> toBucket, ts |-> ts])
                /\ graded' = Append(graded, label)
                /\ sessionQueue' = popQueueIfHeadIs(sessionQueue, cards[cur].id)
                /\ clock' = ts
                /\ UNCHANGED << mode, sessionStart, writingOpts, hasSegmenter, calls >>
                /\ Rerender(IF mode = "writing" THEN FALSE ELSE writingSubmitted)

\* Skip (no history/srs changes): the button of the writing card's editor
handleSkip ==
  /\ Mounted
  /\ feedback = NoFeedback
  /\ sessionQueue' = popQueueIfHeadIs(sessionQueue,
                                      CurrentId(cards, mode, sessionQueue, history, clock))
  /\ UNCHANGED << cards, mode, history, graded, completed, daily, sessionStart, clock,
                  writingOpts, hasSegmenter, calls >>
  /\ Rerender(FALSE)

\* Start Session: in writing mode the queue is all the cards, shuffled; in the other
\* modes it is the due list
startSession ==
  \E t \in Reads(clock) :
     /\ sessionStart' = t
     /\ clock' = t
     /\ completed' = 0
     /\ IF mode = "writing"
        THEN sessionQueue' \in { q \in Selections(cards) : Len(q) = Len(cards) }
        ELSE sessionQueue' = LET due == dueCards(cards, mode, history, clock)
                             IN  [i \in 1..Len(due) |-> cards[due[i]].id]
     /\ UNCHANGED << cards, mode, history, graded, daily, writingOpts, hasSegmenter, calls >>
     /\ Rerender(IF mode = "writing" THEN FALSE ELSE writingSubmitted)

\* the mode selector: setSettings({ ...settings, mode })
setMode ==
  /\ mode' \in Modes \ { mode }
  /\ UNCHANGED << cards, sessionQueue, history, graded, completed, daily, sessionStart, clock,
                  writingOpts, hasSegmenter, calls >>
  /\ Rerender(writingSubmitted)

\* midnight passes
tick ==
  /\ todayKey(clock) < MaxDays
  /\ clock' = (todayKey(clock) + 1) * day
  /\ UNCHANGED << cards, mode, sessionQueue, history, graded, completed, daily, sessionStart,
                  writingOpts, hasSegmenter, calls >>
  /\ Rerender(writingSubmitted)

GradeNext == handleGrade \/ handleSkip \/ startSession \/ setMode \/ tick \/ handleSubmit

GradeSpec == GradeInit /\ [][GradeNext]_vars

(***************************************************************************)

(* Properties.  Submitted states carry the result of the last submit;      *)
(* TypedUnits and ReferenceUnits are the comparison units the call of that *)
(* submit worked on.                                                       *)
(***************************************************************************)
Submitted == feedback.submitted
LastCall == calls[Len(calls)]
TypedUnits == LastCall.T
ReferenceUnits == LastCall.G

\* the texts of the runs, concatenated in order
ConcatRuns(runs) ==
  LET Body(text, r) == text \o runs[r].text
  IN  Iterate(Body, << >>, 1, Len(runs))

\* the raw offset at which run r starts
RunStart(runs, r) == Len(ConcatRuns(SubSeq(runs, 1, r - 1)))

\* the ok values of the runs that cover the raw offsets lo .. hi-1 of the typed text
OkOver(runs, lo, hi) ==
  { runs[r].ok : r \in { q \in 1..Len(runs) :
                           /\ RunStart(runs, q) < hi
                           /\ RunStart(runs, q) + Len(runs[q].text) > lo
                           /\ runs[q].text # << >> } }

NoHead(d) == d.missingHeadRaw = << >> /\ d.missingHeadEndRawIndex = Null
NoTail(d) == d.missingTailRaw = << >> /\ d.missingTailStartRawIndex = Null
NoMiddle(d) == d.midStartRawIndex = Null /\ d.midEndRawIndex = Null

IsScenario(typed, reference, opts) ==
  Submitted /\ value = typed /\ cardText = reference /\ writingOpts = opts

\* C1 (losslessness): after every submit, the texts of the runs of the result,
\* concatenated in order, are the typed raw string.
C1_Lossless ==
  Submitted => ConcatRuns(feedback.diff.runs) = value

\* a submit whose runs hold a neutral run, a matched unit and a mismatched unit
C1_Witness ==
  /\ Submitted
  /\ {feedback.diff.runs[r].ok : r \in 1..Len(feedback.diff.runs)} = {"true", "false", "null"}
  /\ Len(value) = 3

\* the four relaxations of the monotonic-leniency property
Relaxations == {"caseInsensitive", "ignorePunct", "collapseWS", "normalizeQuoteHyphen"}

\* C2 (monotonic leniency): a pair judged exact stays exact when any one of case-fold,
\* punctuation-drop, whitespace-collapse, quote/hyphen-fold is switched on.
C2_MonotonicLeniency ==
  (Submitted /\ feedback.diff.exact) =>
     \A k \in Relaxations :
        diffCharsLCS(value, cardText, [writingOpts EXCEPT ![k] = TRUE], hasSegmenter).exact

\* C3: when the contiguous match length is smaller than the number of typed units,
\* no missingTail text and no tail offset is reported.
C3_TailOnlyOnFullAlignment ==
  (Submitted /\ LastCall.matchedLen < Len(TypedUnits.keys))
     => NoTail(feedback.diff)

\* C4 (self-identity): a text submitted against itself is exact and none of its runs
\* is a mismatch, under every configuration.
C4_SelfIdentity ==
  (Submitted /\ value = cardText) =>
     /\ feedback.diff.exact
     /\ \A r \in 1..Len(feedback.diff.runs) : feedback.diff.runs[r].ok # "false"

\* a text with a dropped cluster and a kept unit, submitted against itself
C4_Witness ==
  /\ Submitted /\ value = cardText
  /\ {feedback.diff.runs[r].ok : r \in 1..Len(feedback.diff.runs)} = {"true", "null"}
  /\ Len(TypedUnits.keys) >= 2

\* C5: exact is true exactly when the typed and the reference key sequences have the
\* same length and equal keys at every index.
C5_ExactIffKeysEqual ==
  Submitted =>
     (feedback.diff.exact <=>
        /\ Len(TypedUnits.keys) = Len(ReferenceUnits.keys)
        /\ \A k \in 1..Len(TypedUnits.keys) : TypedUnits.keys[k] = ReferenceUnits.keys[k])

\* an exact submit of a typed text that differs from the reference
C5_Witness ==
  /\ Submitted /\ feedback.diff.exact
  /\ value # cardText
  /\ Len(TypedUnits.keys) >= 2

\* the kept typed units of scenario C: "God " (0..3), the token "maked" (4..8),
\* and the rest (9..35), as raw offsets of the typed text
ScenarioC == IsScenario(TypedScenarioC, ReferenceGenesis, defaultWritingOptions)

\* C6 (scenario C, run states): exact is false, every kept unit of the substituted
\* token "maked" is in a mismatch run and every other kept typed unit is in a match run.
C6_TokenAllMismatch ==
  ScenarioC =>
     /\ ~feedback.diff.exact
     /\ OkOver(feedback.diff.runs, 4, 9) = {"false"}
     /\ OkOver(feedback.diff.runs, 0, 4) \cup OkOver(feedback.diff.runs, 9, 36) = {"true"}

\* C6 as amended: exact is false; of the token "maked" the units "m" and "k" are in
\* mismatch runs and the units "a", "e", "d", which occur in this order in the
\* reference, are in match runs; every kept typed unit outside the token is in a match run.
C6_TokenLettersMismatch ==
  ScenarioC =>
     /\ ~feedback.diff.exact
     /\ OkOver(feedback.diff.runs, 4, 5) = {"false"}
     /\ OkOver(feedback.diff.runs, 5, 6) = {"true"}
     /\ OkOver(feedback.diff.runs, 6, 7) = {"false"}
     /\ OkOver(feedback.diff.runs, 7, 9) = {"true"}
     /\ OkOver(feedback.diff.runs, 0, 4) \cup OkOver(feedback.diff.runs, 9, 36) = {"true"}

\* scenario C submitted, with a mismatch run in the result
C6_Witness ==
  ScenarioC /\ \E r \in 1..Len(feedback.diff.runs) : feedback.diff.runs[r].ok = "false"

\* C7 (scenario C, boundary): no missingHead and no missingTail is reported.
C7_NoHeadNoTailAcrossMismatch ==
  ScenarioC => NoHead(feedback.diff) /\ NoTail(feedback.diff)

\* "In the beginning ", with its trailing space
InTheBeginning ==
  << "I", "n", " ", "t", "h", "e", " ", "b", "e", "g", "i", "n", "n", "i", "n", "g", " " >>

ScenarioB == IsScenario(TypedScenarioB, ReferenceGenesis, defaultWritingOptions)

\* C8 (scenario B): exact is false, missingHead is "In the beginning ", the matched
\* middle range covers "God created the heavens and the earth." and there is no missingTail.
C8_ScenarioB ==
  ScenarioB =>
     /\ ~feedback.diff.exact
     /\ feedback.diff.missingHeadRaw = InTheBeginning
     /\ feedback.diff.missingHeadEndRawIndex = 17
     /\ feedback.diff.missingHeadRaw \o TypedScenarioB = ReferenceGenesis
     /\ Slice(cardText, feedback.diff.midStartRawIndex, feedback.diff.midEndRawIndex)
          = TypedScenarioB
     /\ feedback.diff.midStartRawIndex = 17 /\ feedback.diff.midEndRawIndex = 55
     /\ NoTail(feedback.diff)

\* scenario B submitted, with a head reported
C8_Witness ==
  ScenarioB /\ feedback.diff.missingHeadEndRawIndex # Null

ScenarioA == IsScenario(TypedScenarioA, ReferencePsalm, OptionsScenarioA)

\* C9 (scenario A): with case-fold, punctuation-drop and quote/hyphen-fold on and the
\* other toggles at their defaults, the result is exact.
C9_ScenarioA ==
  ScenarioA => feedback.diff.exact

\* scenario A submitted: the raw texts differ and two reference clusters are dropped
C9_Witness ==
  /\ ScenarioA
  /\ value # cardText
  /\ Len(ReferenceUnits.keys) = Len(cardText) - 2
  /\ OptionsScenarioA.caseInsensitive /\ OptionsScenarioA.ignorePunct
  /\ OptionsScenarioA.normalizeQuoteHyphen /\ OptionsScenarioA.stripZeroWidth
  /\ OptionsScenarioA.nfc /\ OptionsScenarioA.trim /\ ~OptionsScenarioA.collapseWS

\* C10 (empty typed input): for an empty typed text and a non-empty reference the result
\* has no run (or one run with empty text), no missingHead, no missingTail and no
\* matchedMiddleRange.
C10_EmptyTyped ==
  (Submitted /\ value = << >> /\ cardText # << >>) =>
     /\ \/ feedback.diff.runs = << >>
        \/ /\ Len(feedback.diff.runs) = 1
           /\ feedback.diff.runs[1].text = << >>
     /\ NoHead(feedback.diff)
     /\ NoTail(feedback.diff)
     /\ NoMiddle(feedback.diff)

\* an empty typed text submitted against a reference with kept units
C10_Witness ==
  /\ Submitted /\ value = << >>
  /\ Len(ReferenceUnits.keys) >= 2

(***************************************************************************)
(* Runs                                                                    *)
(***************************************************************************)
\* the LCS mask of the typed units against the reference units
TypedMask == LastCall.mask

\* C11 (run minimality): after every submit, no two adjacent runs of the result have
\* the same ok value.
C11_RunMinimality ==
  Submitted =>
     \A r \in 1..(Len(feedback.diff.runs) - 1) :
        feedback.diff.runs[r].ok # feedback.diff.runs[r + 1].ok

\* C12 (run states): after every submit, a typed raw offset lies in a neutral run
\* exactly when no kept unit covers it; an offset of a kept unit lies in a match run
\* when the LCS mask marks the unit, and in a mismatch run otherwise.
C12_RunStates ==
  Submitted =>
     \A i \in 0..(Len(value) - 1) :
        OkOver(feedback.diff.runs, i, i + 1) =
           { IF TypedUnits.rawToUnit[i] = -1
             THEN "null"
             ELSE OkOf(TypedMask[TypedUnits.rawToUnit[i] + 1]) }

\* a submit with a dropped cluster between two kept units, one marked by the mask and
\* one not
C12_Witness ==
  /\ Submitted
  /\ \E i \in 1..(Len(value) - 2) :
        /\ TypedUnits.rawToUnit[i] = -1
        /\ TypedUnits.rawToUnit[i - 1] # -1
        /\ TypedUnits.rawToUnit[i + 1] # -1
  /\ \E u \in 1..Len(TypedMask) : TypedMask[u]
  /\ \E u \in 1..Len(TypedMask) : ~TypedMask[u]

(***************************************************************************)
(* Totality                                                                *)
(***************************************************************************)
\* the alignment the submit computed
Alignment == [startIdx |-> LastCall.startIdx, matchedLen |-> LastCall.matchedLen]

HasSurrogate(str) == \E k \in 1..Len(str) : str[k] \in {HISURR, LOSURR}

\* C14 (totality): for every typed text, reference and configuration of the model the
\* call throws no error, a submit stores its result, and the reference units read at
\* startIdx, at startIdx + matchedLen - 1 and at startIdx + typed length exist.
C14_Totality ==
  /\ \A i \in 1..Len(calls) : ~Threw(calls[i].result)
  /\ Submitted =>
        /\ DOMAIN feedback.diff =
              {"runs", "exact", "missingHeadRaw", "missingHeadEndRawIndex", "missingTailRaw",
               "missingTailStartRawIndex", "midStartRawIndex", "midEndRawIndex"}
        /\ Alignment.startIdx # Null =>
              /\ InRange(ReferenceUnits.units, Alignment.startIdx)
              /\ Alignment.matchedLen > 0
              /\ InRange(ReferenceUnits.units, Alignment.startIdx + Alignment.matchedLen - 1)
        /\ feedback.diff.missingTailStartRawIndex # Null =>
              InRange(ReferenceUnits.units, Alignment.startIdx + Len(TypedUnits.keys))

\* a submit of a text with an unpaired surrogate half against a reference for which
\* the typed units run past the end of the reference units
C14_Witness ==
  /\ Submitted
  /\ HasSurrogate(value)
  /\ \E k \in 1..Len(value) :
        value[k] = HISURR /\ (k = Len(value) \/ value[k + 1] # LOSURR)
  /\ Alignment.startIdx # Null
  /\ Alignment.startIdx + Len(TypedUnits.keys) > Len(ReferenceUnits.units)

(***************************************************************************)
(* Normalization                                                           *)
(***************************************************************************)
\* the two results of normalizeForCompare a submit works on
BothUnits == {TypedUnits, ReferenceUnits}

\* C15 (edge-trim): with trim on, the key sequence of the typed text and the one of the
\* reference neither start nor end with a whitespace unit.
C15_EdgeTrim ==
  (Submitted /\ writingOpts.trim) =>
     \A N \in BothUnits :
        Len(N.keys) > 0 =>
           /\ ~isWhitespaceCluster(N.keys[1])
           /\ ~isWhitespaceCluster(N.keys[Len(N.keys)])

\* C16 (whitespace-collapse): with collapseWS on, no two consecutive units of a key
\* sequence are whitespace units, and the key of every whitespace unit is one space.
C16_WhitespaceCollapse ==
  (Submitted /\ writingOpts.collapseWS) =>
     \A N \in BothUnits :
        /\ \A k \in 1..(Len(N.keys) - 1) :
              ~(isWhitespaceCluster(N.keys[k]) /\ isWhitespaceCluster(N.keys[k + 1]))
        /\ \A k \in 1..Len(N.keys) :
              isWhitespaceCluster(N.keys[k]) => N.keys[k] = << " " >>

\* a submit with collapseWS on of a typed text whose space and tab, with a dropped
\* full stop between them, make one unit with a single space as its key
C16_Witness ==
  /\ Submitted /\ writingOpts.collapseWS /\ writingOpts.ignorePunct
  /\ value = << " ", ".", TAB >>
  /\ TypedUnits.keys = << << " " >> >>

(***************************************************************************)
(* Boundary locator                                                        *)
(***************************************************************************)
\* the reference positions (0-based) that hold the first typed key
Candidates(tKeys, gKeys) ==
  { s \in 0..(Len(gKeys) - 1) : Len(tKeys) > 0 /\ gKeys[s + 1] = tKeys[1] }

\* the length of the longest common prefix of tKeys and gKeys from position s on
CommonPrefix(tKeys, gKeys, s) ==
  CHOOSE m \in 0..Len(tKeys) :
     /\ \A k \in 1..m : s + k <= Len(gKeys) /\ tKeys[k] = gKeys[s + k]
     /\ \/ m = Len(tKeys)
        \/ s + m + 1 > Len(gKeys)
        \/ tKeys[m + 1] # gKeys[s + m + 1]

\* the common prefix at every candidate, as a function of the candidate
PrefixAt(tKeys, gKeys) ==
  [s \in Candidates(tKeys, gKeys) |-> CommonPrefix(tKeys, gKeys, s)]

\* the greatest value of the function prefix, and the least argument that has it
BestLen(prefix) ==
  CHOOSE m \in { prefix[s] : s \in DOMAIN prefix } : \A s \in DOMAIN prefix : prefix[s] <= m
BestStart(prefix) ==
  CHOOSE s \in DOMAIN prefix :
     /\ prefix[s] = BestLen(prefix)
     /\ \A q \in DOMAIN prefix : prefix[q] = BestLen(prefix) => s <= q

\* the common prefixes of the submit at hand
Prefixes == PrefixAt(TypedUnits.keys, ReferenceUnits.keys)

\* C17 (boundary locator): after a submit with typed units and a candidate, the
\* alignment is the first candidate with the greatest common prefix, with that prefix
\* as its length, and the middle range of the result spans exactly these reference units.
C17_BoundaryLocator ==
  Submitted =>
     LET prefix == Prefixes
         found == Alignment
         G == ReferenceUnits
     IN  DOMAIN prefix # {} =>
            /\ found.startIdx = BestStart(prefix)
            /\ found.matchedLen = BestLen(prefix)
            /\ feedback.diff.midStartRawIndex = G.units[BestStart(prefix) + 1].rawStart
            /\ feedback.diff.midEndRawIndex
                  = G.units[BestStart(prefix) + BestLen(prefix)].rawEnd

\* a submit in which a later candidate beats the first one without matching all the
\* typed units
C17_Witness ==
  /\ Submitted
  /\ LET prefix == Prefixes
     IN  /\ DOMAIN prefix # {}
         /\ \E s \in DOMAIN prefix : s < BestStart(prefix) /\ prefix[s] < BestLen(prefix)
         /\ BestLen(prefix) < Len(TypedUnits.keys)

(***************************************************************************)
(* Head, middle and tail of the reference                                  *)
(***************************************************************************)
\* C18 (missingTail content): after a submit whose typed units all aligned
\* contiguously and whose middle range ends before the end of the reference, missingTail
\* is the reference text from the end of the middle range on, and head, middle and
\* tail put together are the reference.
C18_TailFromMiddleEnd ==
  Submitted =>
     LET found == Alignment
         d == feedback.diff
     IN  (/\ found.startIdx # Null
          /\ found.matchedLen = Len(TypedUnits.keys)
          /\ d.midEndRawIndex < Len(cardText)) =>
            /\ d.missingTailStartRawIndex = d.midEndRawIndex
            /\ d.missingTailRaw = Slice(cardText, d.midEndRawIndex, Len(cardText))
            /\ d.missingHeadRaw \o Slice(cardText, d.midStartRawIndex, d.midEndRawIndex)
                  \o d.missingTailRaw = cardText

\* C19 (missingHead): after every submit a head is reported exactly when an alignment
\* was found at a start index above 0; it is then the non-empty reference prefix that
\* ends at the raw start of the reference unit at the start index, where the middle
\* range starts; otherwise the head text is empty.
C19_MissingHead ==
  Submitted =>
     LET found == Alignment
         d == feedback.diff
         G == ReferenceUnits
     IN  /\ d.missingHeadEndRawIndex # Null <=> (found.startIdx # Null /\ found.startIdx > 0)
         /\ d.missingHeadEndRawIndex # Null =>
               /\ d.missingHeadEndRawIndex = G.units[found.startIdx + 1].rawStart
               /\ d.missingHeadEndRawIndex = d.midStartRawIndex
               /\ d.missingHeadRaw = Slice(cardText, 0, d.missingHeadEndRawIndex)
               /\ d.missingHeadRaw # << >>
         /\ d.missingHeadEndRawIndex = Null => d.missingHeadRaw = << >>

\* a submit with a head that holds more code units than there are reference units
\* before the aligned one (a dropped cluster or a cluster of several code units)
C19_Witness ==
  /\ Submitted
  /\ feedback.diff.missingHeadEndRawIndex # Null
  /\ Len(feedback.diff.missingHeadRaw) > Alignment.startIdx

\* C20 (matchedMiddleRange): after every submit the middle range is populated exactly
\* when there are typed units and the first typed key occurs among the reference keys;
\* it then runs from the raw start of the unit at the start index to the raw end of the
\* last matched unit, with 0 <= start < end <= reference length; without an occurrence
\* of the first typed key there is no head, no tail and no middle range.
C20_MatchedMiddleRange ==
  Submitted =>
     LET found == Alignment
         d == feedback.diff
         G == ReferenceUnits
         T == TypedUnits
         occurs == Len(T.keys) > 0 /\ \E s \in 1..Len(G.keys) : G.keys[s] = T.keys[1]
     IN  /\ d.midStartRawIndex # Null <=> occurs
         /\ d.midEndRawIndex # Null <=> occurs
         /\ occurs =>
               /\ d.midStartRawIndex = G.units[found.startIdx + 1].rawStart
               /\ d.midEndRawIndex = G.units[found.startIdx + found.matchedLen].rawEnd
               /\ 0 <= d.midStartRawIndex
               /\ d.midStartRawIndex < d.midEndRawIndex
               /\ d.midEndRawIndex <= Len(cardText)
         /\ ~occurs => NoHead(d) /\ NoTail(d) /\ NoMiddle(d)

\* a submit whose middle range spans two units or more and lies strictly inside the
\* reference
C20_Witness ==
  /\ Submitted
  /\ feedback.diff.midStartRawIndex # Null
  /\ 0 < feedback.diff.midStartRawIndex
  /\ feedback.diff.midEndRawIndex < Len(cardText)
  /\ Alignment.matchedLen >= 2

\* a submit with typed units whose first key occurs nowhere in the reference units
C20_WitnessNoOccurrence ==
  /\ Submitted
  /\ Len(TypedUnits.keys) > 0 /\ Len(ReferenceUnits.keys) > 0
  /\ Alignment.startIdx = Null

(***************************************************************************)
(* Determinism                                                             *)
(***************************************************************************)
SameArguments(c1, c2) ==
  c1.typed = c2.typed /\ c1.reference = c2.reference /\ c1.opts = c2.opts

Marked(mask) == { u \in 1..Len(mask) : mask[u] }

\* the keys at the positions of S, in order
Pick(keys, S) ==
  LET Body(out, i) == IF i \in S THEN Append(out, keys[i]) ELSE out
  IN  Iterate(Body, << >>, 1, Len(keys))

\* sub is a subsequence of keys: each of its elements equals the key at a position of
\* keys, the positions strictly increasing (the leftmost such positions are tried)
Embeds(sub, keys) ==
  LET Body(n, j) == IF n < Len(sub) /\ sub[n + 1] = keys[j] THEN n + 1 ELSE n
  IN  Iterate(Body, 0, 1, Len(keys)) = Len(sub)

\* C21 (LCS mask): after every submit the typed units the mask marks, read in order,
\* are a subsequence of the reference keys, and no selection of more typed units is a
\* subsequence of the reference keys: the number of marked units is the length of a
\* longest common subsequence.
C21_MaskIsLongestCommonSubsequence ==
  Submitted =>
     LET T == TypedUnits
         G == ReferenceUnits
         marked == Marked(TypedMask)
     IN  /\ Len(TypedMask) = Len(T.keys)
         /\ Embeds(Pick(T.keys, marked), G.keys)
         /\ \A S \in SUBSET (1..Len(T.keys)) :
               Cardinality(S) > Cardinality(marked) => ~Embeds(Pick(T.keys, S), G.keys)

\* a submit whose longest common subsequence skips a typed unit and a reference unit:
\* the marked units are not adjacent, and a reference unit between them is unmatched
C21_Witness ==
  /\ Submitted
  /\ \E u \in 2..(Len(TypedMask) - 1) :
        TypedMask[u - 1] /\ ~TypedMask[u] /\ TypedMask[u + 1]
  /\ Cardinality(Marked(TypedMask)) < Len(ReferenceUnits.keys)

\* the cells (i, j) the backtrack of lcsMatchMask visits, from (m, n) on; once the loop
\* has ended the last cell repeats
BacktrackPath(aKeys, bKeys, dp) ==
  LET Body(path, k) == Append(path, BacktrackStep(aKeys, bKeys, dp, path[Len(path)]))
  IN  Iterate(Body,
              << [i |-> Len(aKeys), j |-> Len(bKeys), mask |-> [i \in 1..Len(aKeys) |-> FALSE]] >>,
              1, Len(aKeys) + Len(bKeys))

\* a cell inside the table at which the keys differ and dp[i-1][j] = dp[i][j-1]
IsTie(aKeys, bKeys, dp, st) ==
  /\ st.i > 0 /\ st.j > 0
  /\ aKeys[st.i] # bKeys[st.j]
  /\ dp[st.i][st.j + 1] = dp[st.i + 1][st.j]

\* the steps the backtrack takes from the ties it visits
TieSteps(aKeys, bKeys) ==
  LET Ties(dp) ==
        LET Over(path) ==
              { [from |-> path[k], to |-> path[k + 1]] :
                  k \in { q \in 1..(Len(path) - 1) : IsTie(aKeys, bKeys, dp, path[q]) } }
        IN  Bind(BacktrackPath(aKeys, bKeys, dp), Over)
  IN  Bind(LcsTable(aKeys, bKeys), Ties)

\* the typed keys [a, b] submitted against the reference keys [b, a]
TiePair ==
  /\ Submitted
  /\ TypedUnits.keys = << << "a" >>, << "b" >> >>
  /\ ReferenceUnits.keys = << << "b" >>, << "a" >> >>

\* C22 (LCS tie-break): after every submit, from every tie it visited the backtrack
\* stepped to reference index j-1 and kept the typed index; for the typed keys [a, b]
\* against the reference keys [b, a] the marked unit is the one equal to the reference
\* key at position 0.
C22_TieStepsReferenceIndex ==
  /\ Submitted =>
        \A t \in TieSteps(TypedUnits.keys, ReferenceUnits.keys) :
           t.to.i = t.from.i /\ t.to.j = t.from.j - 1
  /\ TiePair => TypedMask = << FALSE, TRUE >>

\* C22 as amended: after every submit, from every tie it visited the backtrack stepped
\* to typed index i-1 and kept the reference index; for the typed keys [a, b] against
\* the reference keys [b, a] the marked unit is the first typed unit, a, which equals
\* the reference key at position 1.
C22_TieStepsTypedIndex ==
  /\ Submitted =>
        \A t \in TieSteps(TypedUnits.keys, ReferenceUnits.keys) :
           t.to.i = t.from.i - 1 /\ t.to.j = t.from.j
  /\ TiePair => TypedMask = << TRUE, FALSE >>

\* the typed keys [a, b] submitted against [b, a]: the backtrack starts at a tie
C22_Witness ==
  /\ TiePair
  /\ TieSteps(TypedUnits.keys, ReferenceUnits.keys) # {}

(***************************************************************************)
(* Comparison units and their raw ranges                                   *)
(***************************************************************************)
\* C23 (comparison-unit ranges): after every submit, for the typed text and for the
\* reference, the raw ranges of the units are non-empty, lie inside the text, increase
\* strictly and do not overlap; the offset map has one entry for every raw offset,
\* which is k exactly when unit k covers the offset and -1 when no unit does.
C23_UnitRanges ==
  Submitted =>
     \A N \in BothUnits :
        /\ \A k \in 1..Len(N.units) :
              /\ 0 <= N.units[k].rawStart
              /\ N.units[k].rawStart < N.units[k].rawEnd
              /\ N.units[k].rawEnd <= N.rawLength
        /\ \A k \in 1..(Len(N.units) - 1) : N.units[k].rawEnd <= N.units[k + 1].rawStart
        /\ DOMAIN N.rawToUnit = 0..(N.rawLength - 1)
        /\ \A i \in DOMAIN N.rawToUnit :
              /\ \A k \in 1..Len(N.units) :
                    N.rawToUnit[i] = k - 1
                       <=> (N.units[k].rawStart <= i /\ i < N.units[k].rawEnd)
              /\ N.rawToUnit[i] = -1
                    <=> ~\E k \in 1..Len(N.units) :
                           N.units[k].rawStart <= i /\ i < N.units[k].rawEnd

\* a submit of a typed text with a unit of two code units, then a dropped cluster,
\* then another unit
C23_Witness ==
  /\ Submitted
  /\ Len(TypedUnits.units) >= 2
  /\ TypedUnits.units[1].rawEnd - TypedUnits.units[1].rawStart = 2
  /\ TypedUnits.units[1].rawEnd < TypedUnits.units[2].rawStart
  /\ TypedUnits.rawToUnit[TypedUnits.units[1].rawEnd] = -1

(***************************************************************************)
(* Tokenizer                                                               *)
(***************************************************************************)
\* the units of str are ordered, non-empty, gap-free and non-overlapping, cover str
\* from offset 0 to its length, and each holds the code units of its range
CoversText(clusters, str) ==
  /\ (str = << >>) <=> (clusters = << >>)
  /\ clusters # << >> =>
        /\ clusters[1].start = 0
        /\ clusters[Len(clusters)].end = Len(str)
  /\ \A k \in 1..Len(clusters) :
        /\ clusters[k].start < clusters[k].end
        /\ clusters[k].end <= Len(str)
        /\ clusters[k].str = Slice(str, clusters[k].start, clusters[k].end)
  /\ \A k \in 1..(Len(clusters) - 1) : clusters[k].end = clusters[k + 1].start

\* str has a high surrogate at offset i with a low surrogate after it
PairAt(str, i) == i + 1 < Len(str) /\ str[i + 1] = HISURR /\ str[i + 2] = LOSURR

\* code-point splitting: a unit of two code units for every surrogate pair met at a
\* unit start, and one code unit in every other unit
SplitsByCodePoint(clusters, str) ==
  \A k \in 1..Len(clusters) :
     clusters[k].end - clusters[k].start
        = IF PairAt(str, clusters[k].start) THEN 2 ELSE 1

\* C24 (tokenizer coverage): after every submit, the units graphemesWithRanges gives for
\* the typed text and for the reference cover the text entirely, in order, without gap
\* or overlap, the empty text giving no unit; without a segmenter every surrogate pair
\* is one unit and every other unit is one code unit, so no unit ends past the text.
C24_TokenizerCoverage ==
  Submitted =>
     \A str \in {LastCall.typed, LastCall.reference} :
        LET clusters == graphemesWithRanges(str, hasSegmenter)
        IN  /\ CoversText(clusters, str)
            /\ ~hasSegmenter => SplitsByCodePoint(clusters, str)

\* a submit without a segmenter of a typed text made of a surrogate pair and an
\* unpaired high surrogate at its end, against the empty reference
C24_Witness ==
  /\ Submitted /\ ~hasSegmenter
  /\ value = << HISURR, LOSURR, HISURR >>
  /\ cardText = << >>
  /\ Len(graphemesWithRanges(value, hasSegmenter)) = 2

(***************************************************************************)
(* Exact results                                                           *)
(***************************************************************************)
\* C25: after every submit with exact = true, no missingHead and no missingTail is
\* reported, and when there are keys the middle range runs from the raw start of the
\* first reference unit to the raw end of the last reference unit.
C25_ExactHasNoHeadNoTail ==
  (Submitted /\ feedback.diff.exact) =>
     LET d == feedback.diff
         G == ReferenceUnits
     IN  /\ NoHead(d)
         /\ NoTail(d)
         /\ Len(G.keys) > 0 =>
               /\ d.midStartRawIndex = G.units[1].rawStart
               /\ d.midEndRawIndex = G.units[Len(G.units)].rawEnd
         /\ Len(G.keys) = 0 => NoMiddle(d)

\* an exact submit whose reference has a dropped cluster before its first unit and one
\* after its last unit, and two units that hold the same key
C25_Witness ==
  /\ Submitted /\ feedback.diff.exact
  /\ Len(ReferenceUnits.keys) >= 2
  /\ ReferenceUnits.keys[1] = ReferenceUnits.keys[2]
  /\ 0 < feedback.diff.midStartRawIndex
  /\ feedback.diff.midEndRawIndex < Len(cardText)

\* an exact submit without any key
C25_WitnessNoKeys ==
  /\ Submitted /\ feedback.diff.exact
  /\ Len(ReferenceUnits.keys) = 0
  /\ cardText # << >> /\ value # cardText

(***************************************************************************)
(* Invariance of the comparison keys                                       *)
(***************************************************************************)
\* the number of whitespace characters added before, and after, a typed text
MaxPad == 2
\* the whitespace characters added
PadAlphabet == {" ", TAB}

\* C26 (edge-whitespace invariance): after a submit with trim on, whatever the other
\* toggles, the typed text with whitespace characters added before it and after it has
\* the key sequence of the typed text, and is exact exactly when the typed text is.
C26_EdgeWhitespaceInvariance ==
  (Submitted /\ writingOpts.trim) =>
     \A before, after \in StringsUpTo(PadAlphabet, MaxPad) :
        /\ normalizeForCompare(before \o value \o after, writingOpts, hasSegmenter).keys
              = TypedUnits.keys
        /\ diffCharsLCS(before \o value \o after, cardText, writingOpts, hasSegmenter).exact
              = feedback.diff.exact

\* str with the code unit c inserted at offset at
InsertAt(str, at, c) == Slice(str, 0, at) \o << c >> \o Slice(str, at, Len(str))

\* the offsets of str at which a character can be inserted: every offset but the one
\* between the halves of a surrogate pair
InsertionOffsets(str) == { at \in 0..Len(str) : at = 0 \/ ~PairAt(str, at - 1) }

\* C27 (invisible-character invariance): after a submit with stripZeroWidth on, whatever
\* the other toggles, the typed text with one zero-width mark (ZWSP, ZWNJ, ZWJ, BOM)
\* inserted at any offset, before leading and after trailing whitespace included, has
\* the key sequence of the typed text, the same exact and the same mask.
C27_InvisibleCharacterInvariance ==
  (Submitted /\ writingOpts.stripZeroWidth) =>
     \A mark \in ZW_RE :
        \A at \in InsertionOffsets(value) :
           LET call == DiffCall(InsertAt(value, at, mark), cardText, writingOpts, hasSegmenter)
           IN  /\ call.T.keys = TypedUnits.keys
               /\ call.result.exact = feedback.diff.exact
               /\ call.mask = TypedMask

(***************************************************************************)
(* Folding                                                                 *)
(***************************************************************************)
\* three full stops typed against the ellipsis glyph, with quote/hyphen-fold on and
\* punctuation-drop off
EllipsisPair ==
  /\ Submitted
  /\ value = << ".", ".", "." >>
  /\ cardText = << ELLIPSIS >>
  /\ writingOpts.normalizeQuoteHyphen /\ ~writingOpts.ignorePunct

\* C28 (ellipsis folding): with quote/hyphen-fold on and punctuation-drop off, three
\* typed full stops and the ellipsis glyph of the reference have equal key sequences,
\* and the result is exact.
C28_EllipsisFolding ==
  EllipsisPair =>
     /\ TypedUnits.keys = ReferenceUnits.keys
     /\ feedback.diff.exact


(***************************************************************************)
(* Grading                                                                 *)
(***************************************************************************)
OtherKey(key) == IF key = "fast" THEN "slow" ELSE "fast"

\* what one grade of the current card may change, and what it must leave alone
GradeFrame ==
  LET cur == currentCard(cards, mode, sessionQueue, history, clock)
      key == ScheduleKey(mode)
      entry == history'[Len(history')]
  IN  /\ cur # NoCard
      /\ Len(cards') = Len(cards)
      /\ \A i \in 1..Len(cards) : i # cur => cards'[i] = cards[i]
      /\ cards'[cur].srs[OtherKey(key)] = cards[cur].srs[OtherKey(key)]
      /\ [cards'[cur] EXCEPT !.srs = cards[cur].srs, !.updatedAt = cards[cur].updatedAt]
           = cards[cur]
      /\ Len(history') = Len(history) + 1
      /\ SubSeq(history', 1, Len(history)) = history
      /\ entry.mode = key
      /\ entry.cardId = cards[cur].id
      /\ sessionQueue' = IF sessionQueue # << >> /\ sessionQueue[1] = cards[cur].id
                         THEN Tail(sessionQueue) ELSE sessionQueue

\* C29: a step that grades (the only step that writes the cards or the history)
\* rewrites, of all the schedules, only the schedule of the active mode of the current
\* card (fast in recognition mode, slow in review and writing modes); the card's other
\* schedule, its other fields but updatedAt, and every other card stay as they are; the
\* history grows by exactly one entry, whose mode is that schedule key and whose cardId
\* is the card's id; and the session queue loses its head if the head is the card's id
\* and is unchanged otherwise.
C29_GradingFrame ==
  [][(cards' # cards \/ history' # history) => GradeFrame]_vars

\* a card whose slow schedule is not the initial one was graded 7D in recognition mode,
\* from behind the head of no queue: the queue that started with it lost it
C29_Witness ==
  /\ Len(history) = 1
  /\ history[1].cardId = "c2"
  /\ history[1].mode = "fast"
  /\ history[1].fromBucket = "0D"
  /\ history[1].toBucket = "7D"
  /\ cards[2].srs["fast"].bucket = "7D"
  /\ cards[2].srs["slow"] = GradeDeck[2].srs["slow"]
  /\ cards[2].srs["slow"] # makeInitialSrs(0)["slow"]
  /\ cards[1] = GradeDeck[1]
  /\ sessionQueue = << "c1" >>


\* the bucket named by a label
BucketOfLabel(label) == IF label = "Again" THEN "0D" ELSE label

\* the schedule that the last grade wrote
GradedSub ==
  LET entry == history[Len(history)]
  IN  cards[FindCard(cards, entry.cardId)].srs[entry.mode]

\* C30: at the default jitter of 0.1, for every label and every jitter draw, the toBucket
\* of the history entry and the bucket of the graded schedule are the bucket named by
\* the label (0D for Again), intervalDays is at least 1 for every label but Again, and
\* nextDue = updatedAt + intervalDays * day.
C30_BucketEqualsLabel ==
  /\ \A h \in 1..Len(history) : history[h].toBucket = BucketOfLabel(graded[h])
  /\ history # << >> =>
       /\ GradedSub.bucket = BucketOfLabel(graded[Len(graded)])
       /\ graded[Len(graded)] # "Again" => GradedSub.intervalDays >= 1
       /\ GradedSub.nextDue = GradedSub.updatedAt + GradedSub.intervalDays * day

\* the parts of C30 that hold
C30_IntervalAndDueDate ==
  history # << >> =>
    /\ graded[Len(graded)] # "Again" => GradedSub.intervalDays >= 1
    /\ GradedSub.nextDue = GradedSub.updatedAt + GradedSub.intervalDays * day

=============================================================================
